---- MODULE Spec2Model ----
(***************************************************************************)
(* Model of the ts_envsensors command layer:                               *)
(*   python/lsst/ts/envsensors/command_handler.py    (CommandHandler)      *)
(*   python/lsst/ts/envsensors/ess_instrument_object.py (EssInstrument)    *)
(*                                                                         *)
(* One asyncio event loop runs the command handler coroutine and one       *)
(* polling task per EssInstrument.  A step of the model is the code that   *)
(* runs between two suspension points.  The suspension points are the      *)
(* awaits on the external collaborators: the reader's start(), read() and  *)
(* stop(), and the callback.  EssInstrument._message() is a coroutine      *)
(* without an await of its own, so awaiting it never yields to the loop.   *)
(***************************************************************************)
EXTENDS Integers, Sequences, FiniteSets, TLC

(* ---------------- bounds of the model ---------------- *)

\* Longest device list of a configuration sent with configure.
MaxDevices == 2

\* Number of EssInstrument objects created over a run (start is not
\* taken when it would need more).
MaxInstruments == 2

(* ---------------- constants.py / response_code.py names ---------------- *)

\* _configuration is None, or holds a configuration: << >> or << c >>.
NoConfiguration == << >>
NoDevice == "None"


\* Device configuration records offered to configure.  A record is the set
\* of keys present in the dict and the value stored under "type" ("-" when
\* the key is absent).  ValidRecords pass _validate_device_configuration,
\* InvalidRecords do not: a SERIAL record without serial_port, a record of
\* another type and a record without type.
ValidRecords ==
    { [keys |-> {"name", "channels", "type", "ftdi_id"},     type |-> "FTDI"],
      [keys |-> {"name", "channels", "type", "serial_port"}, type |-> "SERIAL"] }

InvalidRecords ==
    { [keys |-> {"name", "channels", "type"},                type |-> "SERIAL"],
      [keys |-> {"name", "channels", "type", "ftdi_id", "serial_port"},
                                                             type |-> "OTHER"],
      [keys |-> {"name", "channels", "ftdi_id", "serial_port"}, type |-> "-"] }

\* Device lists offered to configure: every list of up to MaxDevices valid
\* records, the empty list, and the lists with an invalid record alone,
\* before a valid record and after one.
DeviceLists ==
    UNION { [1..n -> ValidRecords] : n \in 0..MaxDevices }
    \cup { << b >> : b \in InvalidRecords }
    \cup { << b, v >> : b \in InvalidRecords, v \in ValidRecords }
    \cup { << v, b >> : b \in InvalidRecords, v \in ValidRecords }

\* Configurations offered to configure: the top-level keys of the dict and
\* the value under "devices" (the empty list when the key is absent).  The
\* dicts with the key "devices" alone carry every device list; the dicts
\* without it, and the one with a second key, carry one list.
Configurations ==
    { [keys |-> {"devices"}, devices |-> d] : d \in DeviceLists }
    \cup { [keys |-> k, devices |-> << >>] : k \in {{}, {"a"}} }
    \cup { [keys |-> {"devices", "a"}, devices |-> << v >>] : v \in ValidRecords }

VARIABLES
    simulation_mode,   \* CommandHandler.simulation_mode
    aarch64,           \* "aarch64" in platform.platform()
    configuration,     \* CommandHandler._configuration
    started,           \* CommandHandler._started
    ess_instruments,   \* CommandHandler._ess_instruments (ids of inst)
    inst,              \* the EssInstrument objects created so far
    hpc,               \* where handle_command is suspended
    stop_it,           \* list iterator of the for loop of stop
    stop_cur,          \* the instrument whose stop() is awaited
    cmd,               \* the command being handled, or handled last
    response,          \* the reply payload the callback got for it
    replies,           \* number of reply payloads the callback got for it
    raised             \* the error that left handle_command for it

vars == << simulation_mode, aarch64, configuration, started, ess_instruments,
           inst, hpc, stop_it, stop_cur, cmd, response, replies, raised >>


\* The keys _validate_device_configuration looks for.
DeviceKeys == {"name", "channels", "type", "ftdi_id", "serial_port"}

\* Every device configuration record over DeviceKeys: any set of keys, and
\* under "type", when present, FTDI, SERIAL or another value.
AllRecords ==
    { [keys |-> k, type |-> t] :
          k \in { x \in SUBSET DeviceKeys : "type" \in x },
          t \in {"FTDI", "SERIAL", "OTHER"} }
    \cup { [keys |-> k, type |-> "-"] :
          k \in { x \in SUBSET DeviceKeys : "type" \notin x } }

\* Device lists for the validation alone: the empty list, and every record
\* alone, before a valid record and after one.
AllDeviceLists ==
    { << >> }
    \cup { << r >> : r \in AllRecords }
    \cup { << r, v >> : r \in AllRecords, v \in ValidRecords }
    \cup { << v, r >> : r \in AllRecords, v \in ValidRecords }

\* Configurations for the validation alone: the key "devices" alone or with
\* a second key, over every device list, and the dicts without "devices".
AllConfigurations ==
    { [keys |-> k, devices |-> d] :
          k \in {{"devices"}, {"devices", "a"}}, d \in AllDeviceLists }
    \cup { [keys |-> k, devices |-> << >>] : k \in {{}, {"a"}} }

(* ---------------- CommandHandler: validation ---------------- *)

\* _validate_device_configuration without the serial_port rule.
_validate_device_configuration_NoSerialPortRule(d) ==
    IF \/ "name" \notin d.keys
       \/ "channels" \notin d.keys
       \/ "type" \notin d.keys
    THEN "INVALID_CONFIGURATION"
    ELSE IF d.type \notin {"FTDI", "SERIAL"}
    THEN "INVALID_CONFIGURATION"
    ELSE IF d.type = "FTDI" /\ "ftdi_id" \notin d.keys
    THEN "INVALID_CONFIGURATION"
    ELSE "OK"

\* _validate_device_configuration: the response code of the CommandError it
\* raises, or "OK" when it returns.
_validate_device_configuration(d) ==
    IF \/ "name" \notin d.keys
       \/ "channels" \notin d.keys
       \/ "type" \notin d.keys
    THEN "INVALID_CONFIGURATION"
    ELSE IF d.type \notin {"FTDI", "SERIAL"}
    THEN "INVALID_CONFIGURATION"
    ELSE IF d.type = "FTDI" /\ "ftdi_id" \notin d.keys
    THEN "INVALID_CONFIGURATION"
    ELSE IF d.type = "SERIAL" /\ "serial_port" \notin d.keys
    THEN "INVALID_CONFIGURATION"
    ELSE "OK"

\* _validate_configuration that looks at the first device only.
_validate_configuration_FirstDeviceOnly(c) ==
    IF "devices" \notin c.keys
    THEN "INVALID_CONFIGURATION"
    ELSE IF Cardinality(c.keys) # 1
    THEN "INVALID_CONFIGURATION"
    ELSE IF c.devices = << >>
    THEN "INVALID_CONFIGURATION"
    ELSE _validate_device_configuration(c.devices[1])

\* _validate_configuration without the test that "devices" is the only key.
_validate_configuration_AllowsOtherKeys(c) ==
    IF "devices" \notin c.keys
    THEN "INVALID_CONFIGURATION"
    ELSE IF c.devices = << >>
    THEN "INVALID_CONFIGURATION"
    ELSE IF \E j \in 1..Len(c.devices) :
               _validate_device_configuration(c.devices[j]) # "OK"
    THEN "INVALID_CONFIGURATION"
    ELSE "OK"

\* _validate_configuration: the response code of the CommandError it raises,
\* or "OK" when it returns.
_validate_configuration(c) ==
    IF "devices" \notin c.keys
    THEN "INVALID_CONFIGURATION"
    ELSE IF Cardinality(c.keys) # 1
    THEN "INVALID_CONFIGURATION"
    ELSE IF c.devices = << >>
    THEN "INVALID_CONFIGURATION"
    ELSE IF \E j \in 1..Len(c.devices) :
               _validate_device_configuration(c.devices[j]) # "OK"
    THEN "INVALID_CONFIGURATION"
    ELSE "OK"

(* ---------------- CommandHandler: device selection ---------------- *)

\* _get_device without the platform test for SERIAL devices.
_get_device_NoPlatformTest(d) ==
    IF simulation_mode = 1 THEN "MockTemperatureSensor"
    ELSE IF d.type = "FTDI" THEN "VcpFtdi"
    ELSE IF d.type = "SERIAL" THEN "RpiSerialHat"
    ELSE NoDevice

\* _get_device that does not look at simulation_mode.
_get_device_IgnoresSimulation(d) ==
    IF d.type = "FTDI" THEN "VcpFtdi"
    ELSE IF d.type = "SERIAL"
    THEN IF aarch64 THEN "RpiSerialHat" ELSE NoDevice
    ELSE NoDevice

\* _get_device: the class of the device built for a device configuration, or
\* NoDevice when device stays None and RuntimeError is raised.
_get_device(d) ==
    IF simulation_mode = 1 THEN "MockTemperatureSensor"
    ELSE IF d.type = "FTDI" THEN "VcpFtdi"
    ELSE IF d.type = "SERIAL"
    THEN IF aarch64 THEN "RpiSerialHat" ELSE NoDevice
    ELSE NoDevice

(* ---------------- EssInstrument ---------------- *)

\* Positions of the polling task (telemetry_loop, the coroutine _run):
\*   "pending"       created by ensure_future, not run yet
\*   "reader_start"  suspended in  await self._reader.start()
\*   "read"          suspended in  await self._reader.read()
\*   "callback"      suspended in  await self._callback_func(output)
\*   "finished"      the while loop ended
\*   "cancelled"     CancelledError was thrown into the coroutine
\*   "failed"        read() raised
TaskAlive == {"pending", "reader_start", "read", "callback"}

\* EssInstrument.start() that starts the reader before it schedules the task.
EssInstrumentStart_StartsReader(idx) ==
    [ idx      |-> idx,
      enabled  |-> TRUE,
      task     |-> "pending",
      cancel   |-> FALSE,
      rstarted |-> TRUE,
      rstop    |-> "no" ]

\* EssInstrument.__init__ followed by EssInstrument.start(): _enabled is set
\* and the polling task is scheduled; the reader is not touched.
EssInstrumentStart(idx) ==
    [ idx      |-> idx,          \* position of the device in the configuration
      enabled  |-> TRUE,         \* _enabled
      task     |-> "pending",    \* position of telemetry_loop
      cancel   |-> FALSE,        \* cancel() was requested and not yet delivered
      rstarted |-> FALSE,        \* reader.start() has completed
      rstop    |-> "no" ]        \* reader.stop(): "no", "begun", "done"

\* The part of EssInstrument.stop() before its suspension in reader.stop():
\* Task.cancel() is a no-op on a task that is done.
EssInstrumentStopBegin(e) ==
    [e EXCEPT !.cancel = (e.task \in TaskAlive),
              !.rstop  = "begun"]

\* The part of EssInstrument.stop() after reader.stop() has returned.
EssInstrumentStopEnd(e) ==
    [e EXCEPT !.rstop = "done", !.enabled = FALSE]

(* ---------------- CommandHandler: start and stop ---------------- *)

\* list.remove(x)
ListRemove(L, x) ==
    IF \E j \in 1..Len(L) : L[j] = x
    THEN LET j == CHOOSE k \in 1..Len(L) : L[k] = x /\ \A m \in 1..(k-1) : L[m] # x
         IN  SubSeq(L, 1, j-1) \o SubSeq(L, j+1, Len(L))
    ELSE L

\* connect_devices: index of the first device for which _get_device raises,
\* Len+1 when there is none.
FirstUnresolved(devs) ==
    IF \E j \in 1..Len(devs) : _get_device(devs[j]) = NoDevice
    THEN CHOOSE j \in 1..Len(devs) :
            /\ _get_device(devs[j]) = NoDevice
            /\ \A m \in 1..(j-1) : _get_device(devs[m]) # NoDevice
    ELSE Len(devs) + 1

\* connect_devices: the instruments appended and started before the loop
\* ends or _get_device raises.
connect_devices(devs) ==
    [ j \in 1..(FirstUnresolved(devs) - 1) |->
        EssInstrumentStart(j) ]

\* The for loop of stop_sending_telemetry, run from list position p (the
\* position the list iterator fetches next) until it suspends in the
\* reader.stop() of an instrument (cur # 0) or ends (cur = 0).  The iterator
\* indexes the live list, from which the loop body removes.
RECURSIVE StopLoop(_, _, _)
StopLoop(L, p, I) ==
    IF p > Len(L)
    THEN [list |-> L, it |-> p, inst |-> I, cur |-> 0]
    ELSE LET x == L[p] IN
         IF I[x].enabled
         THEN [list |-> L, it |-> p + 1,
               inst |-> [I EXCEPT ![x] = EssInstrumentStopBegin(I[x])],
               cur |-> x]
         ELSE StopLoop(ListRemove(L, x), p + 1, I)


\* configure that validates before it looks at _started.
configure_ValidatesFirst(c) ==
    IF _validate_configuration(c) # "OK"
    THEN "INVALID_CONFIGURATION"
    ELSE IF started THEN "ALREADY_STARTED" ELSE "OK"

\* configure: the response code of the CommandError it raises, or "OK" when
\* it returns and the configuration is stored.
configure(c) ==
    IF started THEN "ALREADY_STARTED" ELSE _validate_configuration(c)

\* configure that stores a configuration only when none is stored yet.
configure_stores_KeepsStored(c) ==
    IF configure(c) = "OK" /\ configuration = NoConfiguration
    THEN << c >> ELSE configuration

\* configure: _configuration when configure has returned or raised.
configure_stores(c) ==
    IF configure(c) = "OK" THEN << c >> ELSE configuration

\* handle_command that calls the callback in the except clause and again
\* after it.
HandleCommandReply_TwiceOnError(kind, code) ==
    IF kind = "return"
    THEN [response |-> "OK", replies |-> 1, raised |-> "none", hpc |-> "idle"]
    ELSE IF kind = "CommandError"
    THEN [response |-> code, replies |-> 2, raised |-> "none", hpc |-> "idle"]
    ELSE [response |-> "none", replies |-> 0, raised |-> kind, hpc |-> "idle"]

\* handle_command after the handler: a returning handler is answered OK, a
\* CommandError with its response code; any other exception leaves
\* handle_command before the callback is called.  kind is "return",
\* "CommandError" or "RuntimeError".  The callback is called with the reply
\* payload as the last statement of handle_command: the call and the return
\* of handle_command are one step.
HandleCommandReply(kind, code) ==
    IF kind = "return"
    THEN [response |-> "OK", replies |-> 1, raised |-> "none", hpc |-> "idle"]
    ELSE IF kind = "CommandError"
    THEN [response |-> code, replies |-> 1, raised |-> "none", hpc |-> "idle"]
    ELSE [response |-> "none", replies |-> 0, raised |-> kind, hpc |-> "idle"]

(* ---------------- initial state: CommandHandler.__init__ ---------------- *)

Init ==
    /\ simulation_mode \in {0, 1}
    /\ aarch64 \in BOOLEAN
    /\ configuration = NoConfiguration
    /\ started = FALSE
    /\ ess_instruments = << >>
    /\ inst = << >>
    /\ hpc = "idle"
    /\ stop_it = 0
    /\ stop_cur = 0
    /\ cmd = "none"
    /\ response = "none"
    /\ replies = 0
    /\ raised = "none"

(* ---------------- commands ---------------- *)

\* The caller sends one command at a time: a command is handled when the
\* previous handle_command has returned or raised.
BeginCommand(name) ==
    /\ hpc = "idle"
    /\ cmd' = name

Finish(r) ==
    /\ response' = r.response
    /\ replies' = r.replies
    /\ raised' = r.raised
    /\ hpc' = r.hpc

\* handle_command("configure") that drops the stored configuration when the
\* command is rejected.
HandleConfigure_ClearsOnReject(c) ==
    /\ BeginCommand("configure")
    /\ LET code == configure(c) IN
       /\ configuration' = IF code = "OK" THEN << c >> ELSE NoConfiguration
       /\ Finish(HandleCommandReply(IF code = "OK" THEN "return" ELSE "CommandError",
                                    code))
    /\ UNCHANGED << simulation_mode, aarch64, started, ess_instruments, inst,
                    stop_it, stop_cur >>

\* handle_command("configure", configuration=c)
HandleConfigure(c) ==
    /\ BeginCommand("configure")
    /\ LET code == configure(c) IN
       /\ configuration' = configure_stores(c)
       /\ Finish(HandleCommandReply(IF code = "OK" THEN "return" ELSE "CommandError",
                                    code))
    /\ UNCHANGED << simulation_mode, aarch64, started, ess_instruments, inst,
                    stop_it, stop_cur >>

\* start_sending_telemetry without the test of _configuration: no
\* configuration is taken as one without devices.
start_sending_telemetry_NoConfigurationTest ==
    LET devs == IF configuration = NoConfiguration
                THEN << >> ELSE configuration[1].devices IN
    IF FirstUnresolved(devs) <= Len(devs)
    THEN [kind |-> "RuntimeError", code |-> "none",
          new |-> connect_devices(devs), started |-> started]
    ELSE [kind |-> "return", code |-> "OK",
          new |-> connect_devices(devs), started |-> TRUE]

\* start_sending_telemetry: how it ends ("return", "CommandError" with its
\* response code, or the RuntimeError of _get_device), the instruments that
\* connect_devices has created and started until then, and _started.
start_sending_telemetry ==
    IF configuration = NoConfiguration
    THEN [kind |-> "CommandError", code |-> "NOT_CONFIGURED",
          new |-> << >>, started |-> started]
    ELSE LET devs == configuration[1].devices IN
         IF FirstUnresolved(devs) <= Len(devs)
         THEN [kind |-> "RuntimeError", code |-> "none",
               new |-> connect_devices(devs), started |-> started]
         ELSE [kind |-> "return", code |-> "OK",
               new |-> connect_devices(devs), started |-> TRUE]

\* handle_command("start").  Nothing in it suspends: EssInstrument.start()
\* only schedules the polling task.
HandleStart ==
    /\ BeginCommand("start")
    /\ LET r == start_sending_telemetry IN
       /\ Len(inst) + Len(r.new) <= MaxInstruments
       /\ inst' = inst \o r.new
       /\ ess_instruments' =
              ess_instruments \o [j \in 1..Len(r.new) |-> Len(inst) + j]
       /\ started' = r.started
       /\ Finish(HandleCommandReply(r.kind, r.code))
    /\ UNCHANGED << simulation_mode, aarch64, configuration, stop_it, stop_cur >>

\* The for loop of stop_sending_telemetry has suspended in the stop() of
\* r.cur, or has ended (r.cur = 0) and stop_sending_telemetry returns.
AfterStopLoop(r) ==
    /\ ess_instruments' = r.list
    /\ inst' = r.inst
    /\ stop_it' = r.it
    /\ stop_cur' = r.cur
    /\ IF r.cur = 0
       THEN Finish(HandleCommandReply("return", "OK"))
       ELSE /\ hpc' = "stop_reader"
            /\ response' = "none"
            /\ replies' = 0
            /\ raised' = "none"

\* handle_command("stop") that leaves _started set.
HandleStop_KeepsStarted ==
    /\ BeginCommand("stop")
    /\ IF ~started
       THEN /\ Finish(HandleCommandReply("CommandError", "NOT_STARTED"))
            /\ UNCHANGED << started, ess_instruments, inst, stop_it, stop_cur >>
       ELSE /\ started' = started
            /\ AfterStopLoop(StopLoop(ess_instruments, 1, inst))
    /\ UNCHANGED << simulation_mode, aarch64, configuration >>

\* handle_command("stop") up to its first suspension.
HandleStop ==
    /\ BeginCommand("stop")
    /\ IF ~started
       THEN /\ Finish(HandleCommandReply("CommandError", "NOT_STARTED"))
            /\ UNCHANGED << started, ess_instruments, inst, stop_it, stop_cur >>
       ELSE /\ started' = FALSE
            /\ AfterStopLoop(StopLoop(ess_instruments, 1, inst))
    /\ UNCHANGED << simulation_mode, aarch64, configuration >>

\* handle_command("stop") resumes: the reader.stop() awaited by the stop() of
\* stop_cur has returned; stop() ends, the instrument is removed from the
\* list and the for loop goes on.
StopReaderDone ==
    /\ hpc = "stop_reader"
    /\ AfterStopLoop(StopLoop(ListRemove(ess_instruments, stop_cur), stop_it,
                              [inst EXCEPT ![stop_cur] = EssInstrumentStopEnd(@)]))
    /\ UNCHANGED << simulation_mode, aarch64, configuration, started, cmd >>

(* ---------------- the polling task EssInstrument._run ---------------- *)

Handler == << simulation_mode, aarch64, configuration, started, ess_instruments,
              hpc, stop_it, stop_cur, cmd, response, replies, raised >>

\* A cancelled task makes no further step of its own: the next time it is
\* scheduled CancelledError is thrown into it.
Runs(i, at) ==
    /\ i \in 1..Len(inst)
    /\ inst[i].task = at
    /\ ~inst[i].cancel

\* while self._enabled: await self._reader.read()
LoopHead(e) ==
    IF e.enabled THEN [e EXCEPT !.task = "read"] ELSE [e EXCEPT !.task = "finished"]

\* _run that does not await reader.start() before it enters the loop.
RunBegin_SkipsReaderStart(i) ==
    /\ Runs(i, "pending")
    /\ inst' = [inst EXCEPT ![i] = LoopHead(@)]
    /\ UNCHANGED Handler

\* The task is run for the first time, up to  await self._reader.start().
RunBegin(i) ==
    /\ Runs(i, "pending")
    /\ inst' = [inst EXCEPT ![i].task = "reader_start"]
    /\ UNCHANGED Handler

\* reader.start() returns; the loop is entered, up to  await reader.read().
RunReaderStarted(i) ==
    /\ Runs(i, "reader_start")
    /\ inst' = [inst EXCEPT ![i] = LoopHead([@ EXCEPT !.rstarted = TRUE])]
    /\ UNCHANGED Handler

\* reader.read() returns; _process_sensor_telemetry passes the envelope to
\* the callback, in which the task suspends.
RunReadDone(i) ==
    /\ Runs(i, "read")
    /\ inst' = [inst EXCEPT ![i].task = "callback"]
    /\ UNCHANGED Handler

\* _run that swallows the exception of reader.read() and passes the
\* reader's previous output to the callback.
RunReadFailed_Swallowed(i) ==
    /\ Runs(i, "read")
    /\ inst' = [inst EXCEPT ![i].task = "callback"]
    /\ UNCHANGED Handler

\* reader.read() raises: the exception ends the task.
RunReadFailed(i) ==
    /\ Runs(i, "read")
    /\ inst' = [inst EXCEPT ![i].task = "failed"]
    /\ UNCHANGED Handler

\* The callback returns; the loop goes round.
RunCallbackReturn(i) ==
    /\ Runs(i, "callback")
    /\ inst' = [inst EXCEPT ![i] = LoopHead(@)]
    /\ UNCHANGED Handler

\* The cancellation requested by Task.cancel() reaches the task.
RunCancelled(i) ==
    /\ i \in 1..Len(inst)
    /\ inst[i].cancel
    /\ inst' = [inst EXCEPT ![i] = [@ EXCEPT !.task = "cancelled", !.cancel = FALSE]]
    /\ UNCHANGED Handler

(* ---------------- specification ---------------- *)

Next ==
    \/ \E c \in Configurations : HandleConfigure(c)
    \/ HandleStart
    \/ HandleStop
    \/ StopReaderDone
    \/ \E i \in 1..MaxInstruments : RunBegin(i)
    \/ \E i \in 1..MaxInstruments : RunReaderStarted(i)
    \/ \E i \in 1..MaxInstruments : RunReadDone(i)
    \/ \E i \in 1..MaxInstruments : RunReadFailed(i)
    \/ \E i \in 1..MaxInstruments : RunCallbackReturn(i)
    \/ \E i \in 1..MaxInstruments : RunCancelled(i)

Spec == Init /\ [][Next]_vars

\* The event loop runs every task that is ready, and the reader's start()
\* and read() complete (read() by returning or by raising).
Fairness ==
    \A i \in 1..MaxInstruments :
        /\ WF_vars(RunBegin(i))
        /\ WF_vars(RunReaderStarted(i))
        /\ WF_vars(RunReadDone(i))

\* The dispatcher constructed with simulation mode on.
SimulationInit == Init /\ simulation_mode = 1

FairSpec == SimulationInit /\ [][Next]_vars /\ Fairness

\* The configure command alone, sent with every configuration of
\* AllConfigurations to a dispatcher that is never started.
ValidateNext == \E c \in AllConfigurations : HandleConfigure(c)

SpecValidate == Init /\ [][ValidateNext]_vars

(* ---------------- properties ---------------- *)

ResponseCodes == {"OK", "ALREADY_STARTED", "NOT_CONFIGURED", "NOT_STARTED",
                  "INVALID_CONFIGURATION"}

\* handle_command has returned or raised for some command.
Handled(name) == hpc = "idle" /\ cmd = name

\* Some step handles a configure command.
SomeConfigure == \E c \in Configurations : HandleConfigure(c)

\* C1 as stated: every invocation of handle_command, whether its handler
\* succeeds or fails, has called the callback exactly once with a reply
\* payload when it ends.
C1_EveryInvocationRepliesOnce ==
    (hpc = "idle" /\ cmd # "none") => (replies = 1 /\ response \in ResponseCodes)

\* C1 amended: an invocation of handle_command whose handler returns or
\* raises a CommandError has called the callback exactly once with a reply
\* payload {response: code} when it ends, and never more than once; an
\* invocation whose handler raises another exception (the RuntimeError of
\* device resolution in start) has not called it, and no reply is sent while
\* the handler is still suspended.
C1_RepliesOnceUnlessFatal ==
    /\ replies \in {0, 1}
    /\ (hpc = "idle" /\ cmd # "none" /\ raised = "none")
          => (replies = 1 /\ response \in ResponseCodes)
    /\ (hpc = "idle" /\ raised # "none")
          => (replies = 0 /\ response = "none" /\ cmd = "start"
              /\ raised = "RuntimeError")
    /\ hpc # "idle" => (replies = 0 /\ response = "none")

\* C1 witness: a stop that went through its suspensions has been replied OK
\* once.
C1_Witness ==
    /\ Handled("stop") /\ response = "OK" /\ replies = 1
    /\ \E i \in 1..Len(inst) : inst[i].rstop = "done"

\* C2: a configure handled while the dispatcher is STARTED is replied
\* ALREADY_STARTED, whatever configuration it carries, and leaves the stored
\* configuration, the started flag, the active set and every supervisor
\* (its poll loop and reader) unchanged.
C2_ConfigureWhileStarted ==
    [][ (started /\ SomeConfigure)
          => /\ response' = "ALREADY_STARTED"
             /\ replies' = 1
             /\ UNCHANGED << configuration, started, ess_instruments, inst >>
      ]_vars

\* C2 witness: a configure was rejected with ALREADY_STARTED while a poll loop
\* is running.
C2_Witness ==
    /\ Handled("configure") /\ response = "ALREADY_STARTED" /\ started
    /\ \E i \in 1..Len(inst) : inst[i].task = "read"

\* The validation rules as the claim C3 lists them.
ViolatesDeviceRules(d) ==
    \/ ~ ({"name", "channels", "type"} \subseteq d.keys)
    \/ d.type \notin {"FTDI", "SERIAL"}
    \/ (d.type = "FTDI" /\ "ftdi_id" \notin d.keys)
    \/ (d.type = "SERIAL" /\ "serial_port" \notin d.keys)

ViolatesRules(c) ==
    \/ "devices" \notin c.keys
    \/ c.keys # {"devices"}
    \/ c.devices = << >>
    \/ \E j \in 1..Len(c.devices) : ViolatesDeviceRules(c.devices[j])

\* A step that handles a configure command: the only steps that begin a
\* command leave the instruments alone exactly when the command is configure.
ConfigureStep == hpc = "idle" /\ cmd' = "configure" /\ inst' = inst

\* C3: a configure that violates a validation rule (at the top level or in a
\* device record at any position) while the dispatcher is not STARTED is
\* replied INVALID_CONFIGURATION and leaves the stored configuration as it
\* was (only a configuration that violates no rule is ever stored); a start
\* that follows it connects the devices of that stored configuration.
C3_InvalidConfigureKeepsConfiguration ==
    /\ [](\A c \in Configurations :
             (~started /\ ViolatesRules(c)) => configure(c) = "INVALID_CONFIGURATION")
    /\ [][ /\ (~started /\ ConfigureStep)
                 => /\ replies' = 1
                    /\ response' = "INVALID_CONFIGURATION"
                          => UNCHANGED << configuration, started, ess_instruments >>
                    /\ response' # "INVALID_CONFIGURATION"
                          => ~ViolatesRules(configuration'[1])
           /\ (Handled("configure") /\ response = "INVALID_CONFIGURATION"
                 /\ configuration # NoConfiguration /\ HandleStart)
                 => \/ /\ response' = "OK"
                       /\ Len(inst') = Len(inst) + Len(configuration[1].devices)
                    \/ raised' = "RuntimeError"
         ]_vars

\* C3 witness: a configure was rejected with INVALID_CONFIGURATION while an
\* earlier accepted configuration is stored.
C3_Witness ==
    /\ Handled("configure") /\ response = "INVALID_CONFIGURATION"
    /\ configuration # NoConfiguration /\ ~started

\* C4: a start handled before any successful configure is replied
\* NOT_CONFIGURED; the dispatcher stays UNCONFIGURED and no supervisor and no
\* reader exists.
C4_StartUnconfigured ==
    [][ (configuration = NoConfiguration /\ HandleStart)
          => /\ response' = "NOT_CONFIGURED"
             /\ replies' = 1
             /\ configuration' = NoConfiguration
             /\ ~started'
             /\ ess_instruments' = << >>
             /\ inst' = << >>
      ]_vars

\* C4 witness: a start was rejected with NOT_CONFIGURED.
C4_Witness ==
    /\ Handled("start") /\ response = "NOT_CONFIGURED"
    /\ configuration = NoConfiguration /\ inst = << >>

\* C5: a stop handled while the dispatcher is not STARTED is replied
\* NOT_STARTED and changes no dispatcher state; a stop begun in STARTED is
\* replied OK when it ends, and a stop that directly follows it is replied
\* NOT_STARTED.
C5_StopWhileNotStarted ==
    [][ /\ (~started /\ HandleStop)
              => /\ response' = "NOT_STARTED"
                 /\ replies' = 1
                 /\ UNCHANGED << configuration, started, ess_instruments, inst >>
        /\ ((started /\ HandleStop) \/ StopReaderDone)
              => /\ ~started'
                 /\ hpc' = "idle" => (response' = "OK" /\ replies' = 1)
        /\ (Handled("stop") /\ response = "OK" /\ HandleStop)
              => response' = "NOT_STARTED"
      ]_vars

\* C5 witness: a stop was rejected with NOT_STARTED after an earlier stop had
\* stopped a supervisor.
C5_Witness ==
    /\ Handled("stop") /\ response = "NOT_STARTED"
    /\ \E i \in 1..Len(inst) : inst[i].rstop = "done"

\* C6 as stated: in configure(C), start, stop, configure(C), start every
\* command is replied OK, the active set is empty after each stop that is
\* replied OK, and a start from the stopped dispatcher, whose active set is
\* then empty, leaves exactly one entry per device of C, for every number of
\* devices.
C6_RoundTrip ==
    /\ []((Handled("stop") /\ response = "OK") => ess_instruments = << >>)
    /\ [][ (~started /\ ess_instruments = << >> /\ HandleStart /\ response' = "OK")
              => Len(ess_instruments') = Len(configuration[1].devices) ]_vars

\* C7 as stated: when a stop handled in STARTED has been replied OK, every
\* supervisor of the active set has been stopped: its poll loop is cancelled
\* and the stop of its reader has completed.  (Supervisors leave the active
\* set only in a stop, after their own stop(): the supervisors created so
\* far are the ones in the active set when the command began and the ones
\* stopped by an earlier stop.)
C7_StopStopsEverySupervisor ==
    (Handled("stop") /\ response = "OK")
       => \A i \in 1..Len(inst) :
             /\ inst[i].rstop = "done"
             /\ (inst[i].cancel \/ inst[i].task \notin TaskAlive)

\* C8: the dispatcher is always in one of the states UNCONFIGURED, CONFIGURED
\* and STARTED: the started flag is never set while no configuration is
\* stored.
C8_LegalStates ==
    \/ (configuration = NoConfiguration /\ ~started)
    \/ (configuration # NoConfiguration /\ ~started)
    \/ (configuration # NoConfiguration /\ started)

\* C8 witness: the dispatcher is STARTED with two supervisors after a start
\* replied OK.
C8_Witness ==
    /\ Handled("start") /\ response = "OK" /\ started
    /\ configuration # NoConfiguration /\ Len(ess_instruments) = 2

\* C9: with simulation mode off and a platform that is not aarch64, a start
\* on a stored configuration with a SERIAL device ends with the RuntimeError
\* of device resolution: it leaves handle_command, no reply is sent and the
\* dispatcher is not marked STARTED.
C9_SerialOffPlatformIsFatal ==
    [][ ( /\ simulation_mode = 0 /\ ~aarch64
          /\ configuration # NoConfiguration
          /\ \E j \in 1..Len(configuration[1].devices) :
                configuration[1].devices[j].type = "SERIAL"
          /\ HandleStart )
          => /\ raised' = "RuntimeError"
             /\ replies' = 0
             /\ response' = "none"
             /\ ~started'
      ]_vars

\* C9 witness: a start has ended with the RuntimeError and without a reply.
C9_Witness ==
    /\ simulation_mode = 0 /\ ~aarch64
    /\ Handled("start") /\ raised = "RuntimeError" /\ replies = 0 /\ ~started

\* The configuration of Scenario A: one SERIAL device record with exactly
\* the fields name, channels and type.
ScenarioA ==
    [keys |-> {"devices"},
     devices |-> << [keys |-> {"name", "channels", "type"}, type |-> "SERIAL"] >>]

\* The configuration of Scenario A with serial_port added to the record.
ScenarioAWithPort ==
    [keys |-> {"devices"},
     devices |-> << [keys |-> {"name", "channels", "type", "serial_port"},
                     type |-> "SERIAL"] >>]

\* A new command handler with simulation mode off on a platform that is not
\* aarch64.
ScenarioAStart ==
    simulation_mode = 0 /\ ~aarch64 /\ configuration = NoConfiguration /\ ~started

\* C10 as stated: after configure with the configuration of Scenario A, start
\* raises the RuntimeError of device resolution.
C10_ScenarioAStartIsFatal ==
    [][ (ScenarioAStart /\ HandleConfigure(ScenarioA))
          => start_sending_telemetry'.kind = "RuntimeError" ]_vars

\* C10 amended: configure with the configuration of Scenario A is replied
\* INVALID_CONFIGURATION (the SERIAL record has no serial_port) and stores
\* nothing, and the start that follows is replied NOT_CONFIGURED; with
\* serial_port added to the record, configure is replied OK and the start
\* that follows raises the RuntimeError of device resolution.
C10_ScenarioAIsRejected ==
    [][ /\ (ScenarioAStart /\ HandleConfigure(ScenarioA))
              => /\ response' = "INVALID_CONFIGURATION"
                 /\ configuration' = NoConfiguration
                 /\ start_sending_telemetry'.kind = "CommandError"
                 /\ start_sending_telemetry'.code = "NOT_CONFIGURED"
        /\ (ScenarioAStart /\ HandleConfigure(ScenarioAWithPort))
              => /\ response' = "OK"
                 /\ start_sending_telemetry'.kind = "RuntimeError"
      ]_vars

\* C10 witness: on a new handler with simulation mode off on another
\* platform a configure was rejected with INVALID_CONFIGURATION.
C10_Witness ==
    /\ ScenarioAStart
    /\ Handled("configure") /\ response = "INVALID_CONFIGURATION"

\* C11: with simulation mode on, a start on any stored (accepted)
\* configuration is replied OK on any platform, and under fair scheduling
\* every supervisor has a telemetry envelope delivered to the callback,
\* unless it is stopped first or its reader's read() raises.
C11_SimulationTelemetry ==
    /\ [][ (simulation_mode = 1 /\ configuration # NoConfiguration /\ HandleStart)
              => (response' = "OK" /\ replies' = 1 /\ started') ]_vars
    /\ \A i \in 1..MaxInstruments :
          (simulation_mode = 1 /\ i <= Len(inst))
             ~> (/\ i <= Len(inst)
                 /\ \/ inst[i].task = "callback"
                    \/ inst[i].cancel
                    \/ inst[i].task \in {"cancelled", "failed"})

\* C11 witness: with simulation mode on, after a start replied OK, both
\* supervisors of a two-device configuration are in the callback with an
\* envelope.
C11_Witness ==
    /\ simulation_mode = 1 /\ started /\ Handled("start") /\ response = "OK"
    /\ Len(inst) = 2
    /\ \A i \in 1..Len(inst) : inst[i].task = "callback"

\* C12: after a start replied OK the active set is fresh: exactly one
\* supervisor per device of the stored configuration, in configuration
\* order, none of them created by an earlier start.
C12_StartBuildsFreshActiveSet ==
    [][ (HandleStart /\ response' = "OK")
           => /\ Len(ess_instruments') = Len(configuration[1].devices)
              /\ \A j \in 1..Len(ess_instruments') :
                    /\ ess_instruments'[j] > Len(inst)
                    /\ inst'[ess_instruments'[j]].idx = j ]_vars

\* C13 as stated: EssInstrument.start() has started the reader when it
\* returns, so reader.stop() is never called on a reader that was never
\* started.
C13_StopNeverOnUnstartedReader ==
    \A i \in 1..Len(inst) : inst[i].rstop # "no" => inst[i].rstarted

\* C13 amended: EssInstrument.start() only schedules the polling task and
\* leaves the reader unstarted (the task starts it in _run); a stop() that
\* begins before the task has run cancels the task and calls reader.stop()
\* on a reader that was never started, and a cancelled task never starts it.
C13_ReaderStartedByTask ==
    [][ \A i \in 1..Len(inst') :
          /\ i > Len(inst)
                => /\ inst'[i].task = "pending"
                   /\ ~inst'[i].rstarted
                   /\ inst'[i].rstop = "no"
          /\ (/\ i <= Len(inst)
              /\ inst[i].task = "pending"
              /\ inst[i].rstop = "no"
              /\ inst'[i].rstop = "begun")
                => (~inst'[i].rstarted /\ inst'[i].cancel)
          /\ (i <= Len(inst) /\ inst[i].cancel)
                => inst'[i].rstarted = inst[i].rstarted ]_vars

\* C13 witness: reader.stop() has returned on a reader whose start() was
\* never called, the task having been cancelled before it ran.
C13_Witness ==
    \E i \in 1..Len(inst) :
        /\ inst[i].rstop = "done"
        /\ ~inst[i].rstarted
        /\ inst[i].task = "cancelled"

\* C14: EssInstrument.stop() waits for the cancelled polling task to
\* terminate before it stops the reader: reader.stop() is never in progress
\* while the polling task is still alive.
C14_ReaderStopAfterTaskEnded ==
    \A i \in 1..Len(inst) :
        inst[i].rstop = "begun" => inst[i].task \notin TaskAlive

\* C15: within one supervisor reads and emissions are strictly sequential:
\* an envelope is passed to the callback only when a read has returned, and
\* a read begins only when reader.start() or the callback of the previous
\* read has returned; a task that waits in the callback leaves it only when
\* the callback returns or the task is cancelled.
C15_ReadsAndEmissionsSequential ==
    [][ \A i \in 1..Len(inst) :
          /\ (inst'[i].task = "callback" /\ inst[i].task # "callback")
                => (inst[i].task = "read" /\ RunReadDone(i))
          /\ (inst'[i].task = "read" /\ inst[i].task # "read")
                => \/ inst[i].task = "reader_start" /\ RunReaderStarted(i)
                   \/ inst[i].task = "callback" /\ RunCallbackReturn(i)
          /\ (inst[i].task = "callback" /\ inst'[i].task # "callback")
                => \/ RunCallbackReturn(i)
                   \/ RunCancelled(i) ]_vars

\* C15 witness: of two supervisors one waits in the callback with its
\* envelope while the other waits in a read.
C15_Witness ==
    /\ Len(inst) = 2
    /\ inst[1].task = "callback" /\ ~inst[1].cancel
    /\ inst[2].task = "read" /\ ~inst[2].cancel

\* C16: once a stop has been replied OK, and until the next command, no
\* supervisor passes an envelope to the callback and none begins a read.
C16_QuietAfterStop ==
    [][ (Handled("stop") /\ response = "OK")
           => \A i \in 1..Len(inst) :
                 inst'[i].task \in {"read", "callback"}
                    => inst'[i].task = inst[i].task ]_vars

\* C17: a start that fails fatally at its k-th device leaves nothing
\* behind: the dispatcher is not started and no supervisor created for the
\* devices before the k-th remains in the active set or keeps a polling
\* task.
C17_FatalStartLeavesNothing ==
    [][ (HandleStart /\ raised' = "RuntimeError")
           => /\ ~started'
              /\ ess_instruments' = ess_instruments
              /\ \A i \in (Len(inst) + 1)..Len(inst') :
                    inst'[i].task \notin TaskAlive ]_vars

Accepts(c) ==
    /\ c.keys = {"devices"}
    /\ Len(c.devices) > 0
    /\ \A j \in 1..Len(c.devices) :
          LET d == c.devices[j] IN
          /\ {"name", "channels", "type"} \subseteq d.keys
          /\ d.type \in {"FTDI", "SERIAL"}
          /\ (d.type = "FTDI" => "ftdi_id" \in d.keys)
          /\ (d.type = "SERIAL" => "serial_port" \in d.keys)

\* C19: while not started, configure answers OK exactly for the
\* configurations with "devices" as only key, a non-empty device list and
\* in every record name, channels and a type FTDI (with ftdi_id) or SERIAL
\* (with serial_port), and INVALID_CONFIGURATION for every other; the reply
\* of a configure command is that code, and only an accepted configuration
\* is stored.
C19_ConfigureAcceptsExactly ==
    /\ [](\A c \in AllConfigurations :
             ~started => configure(c) = IF Accepts(c) THEN "OK"
                                        ELSE "INVALID_CONFIGURATION")
    /\ [][ (hpc = "idle" /\ cmd' = "configure" /\ ~started)
              => \/ /\ response' = "OK" /\ replies' = 1
                    /\ configuration' # NoConfiguration
                    /\ Accepts(configuration'[1])
                 \/ /\ response' = "INVALID_CONFIGURATION" /\ replies' = 1
                    /\ configuration' = configuration ]_vars

\* C19 witness: a configure has been replied OK for a two-device
\* configuration in which an FTDI record also carries serial_port.
C19_Witness ==
    /\ Handled("configure") /\ response = "OK" /\ ~started
    /\ Len(configuration[1].devices) = 2
    /\ \E j \in 1..2 :
          /\ configuration[1].devices[j].type = "FTDI"
          /\ "serial_port" \in configuration[1].devices[j].keys

\* C20: a read() that raises ends the polling task of that supervisor alone:
\* the task reads and emits no more, the other supervisors and the
\* dispatcher's configuration, started flag, active set and replies are left
\* as they are, and a stop that ends afterwards is still replied OK.
C20_ReadFailureEndsOneLoop ==
    /\ [][ \A i \in 1..Len(inst) :
              /\ RunReadFailed(i)
                    => /\ inst'[i].task = "failed"
                       /\ \A j \in 1..Len(inst) \ {i} : inst'[j] = inst[j]
                       /\ UNCHANGED Handler
              /\ inst[i].task = "failed" => inst'[i].task = "failed" ]_vars
    /\ [][ (StopReaderDone /\ hpc' = "idle")
              => (response' = "OK" /\ replies' = 1) ]_vars

\* C20 witness: of two supervisors the first has failed in a read and the
\* second is in the callback with an envelope, and a stop that stopped the
\* failed supervisor has been replied OK.
C20_Witness ==
    /\ Handled("stop") /\ response = "OK"
    /\ Len(inst) = 2
    /\ inst[1].task = "failed" /\ inst[1].rstop = "done"
    /\ inst[2].task = "callback"

====
